---- MODULE Spec2Model ----
(***************************************************************************)
(* Seed-data pipeline of furni-shop.                                       *)
(*                                                                         *)
(*   seed/scripts/fetch-images.ts      ImageFetcher   (specification Spec) *)
(*   seed/scripts/generate-listings.ts ListingGenerator                    *)
(*                                                                         *)
(* The image fetcher is modelled at the granularity of its await points:   *)
(* every provider request, every write of the progress file and of the     *)
(* catalog files is one step.  The process may be terminated between two   *)
(* steps and started again; the files survive, the memory does not.        *)
(***************************************************************************)
EXTENDS Integers, Sequences, FiniteSets, TLC

(***************************************************************************)
(* Bounds of the model.  The category table of the source has ten entries  *)
(* with three or four queries and targets of 70..150, and a provider page  *)
(* holds up to 30 records; the model keeps the table's shape and order     *)
(* with smaller numbers.                                                   *)
(***************************************************************************)
NumCats == 2
QueriesPerCat == 1
CatTarget == 2
MaxPageLen == 1
MaxId == 3
MaxTarget == 2
ScenarioTarget == 2
MaxDedupLen == 3
NumGroups == 2
MaxCatalogLen == 7
PriceSamples == 1000
MaxWindow == 2
MaxImageTags == 1

(* Program constants. *)
MAX_RETRIES == 3
MAX_PAGES == 10
RATE_LIMIT_DELAY == 1100
RATE_LIMIT_WAIT == 60000
BACKOFF_UNIT == 2000

VARIABLES
    \* ---- ImageFetcher: process memory
    pc,               \* position in main / fetchAll / finalize
    unsplashKey,      \* this.unsplashKey is non-empty
    pexelsKey,        \* this.pexelsKey is non-empty
    targetTotal,      \* argument of fetchAll
    categoryTable,    \* the category table the job is built with
    perPage,          \* most records a provider returns for one page
    progress,         \* this.progress
    catIdx,           \* position of the for-loop over FURNITURE_CATEGORIES
    queryIdx,         \* position of the for-loop over queries
    page,             \* let page
    fetchedForQuery,  \* let fetchedForQuery
    categoryCount,    \* let categoryCount
    retries,          \* let retries of the fetchUnsplash / fetchPexels call in progress
    unsplashImagesLength, \* unsplashImages.length of the page iteration in progress
    uniqueImages,     \* const uniqueImages of finalize
    \* ---- ImageFetcher: files (<<>> when absent, <<content>> when present)
    progressFile,     \* PROGRESS_FILE
    outputFile,       \* OUTPUT_FILE
    pexelsOutput,     \* PEXELS_OUTPUT
    \* ---- ImageFetcher: observation of the current run
    ckpt,             \* what loadProgress read: <<>> or <<checkpoint>>
    reqCats,          \* categories (0-based index) this run issued a provider request for
    firstReq,         \* <<>> or <<index of the category of this run's first request>>
    sleepMs,          \* milliseconds slept by the latest step
    delayed,          \* the run has slept since the latest provider answer;
                      \* TRUE too while no answer precedes the next request
                      \* (at the start of a run, and while a request is in flight)
    \* ---- finalize's deduplication applied to a list and to its own output
    dpc,              \* "input", "once", "twice"
    accumulated,      \* the accumulated image list
    dedupOnce,        \* its deduplication
    dedupTwice,       \* the deduplication of dedupOnce
    \* ---- ListingGenerator
    gpc,              \* position in main / loadImages / generateAllListings
    catalogFile,      \* ../images/unsplash_urls.json: <<>> unreadable, <<parsed JSON>>
    images,           \* this.images
    imagesByCategory, \* the groups, in the order of Object.entries
    groupIdx,         \* position of the for-loop over the groups
    i,                \* let i
    categoryListings, \* const categoryListings
    listings,         \* const listings
    listingsFile,     \* ../data/listings_large.json: <<>> or <<content>>
    exitCode,         \* <<>> while running, <<status>> after process.exit
    \* ---- generateListing: the price
    ppc,              \* "draw", "priced"
    priceCategory,    \* const category = images[0].category
    condition,        \* const condition
    basePrice,        \* const basePrice
    price,            \* const price
    \* ---- generateListing: the tags
    tpc,              \* "draw", "tagged"
    tagImages,        \* the parameter images: the window of the listing
    tagCategory,      \* const category = images[0].category
    materials,        \* const materials
    tagCondition,     \* const condition
    tags,             \* the field tags of the listing
    \* ---- generateTitle
    titlepc,          \* "call", "returned"
    titleCategory,    \* the parameter category
    titleMaterial,    \* the parameter material
    template,         \* const template
    title             \* the string returned

fvars == <<pc, unsplashKey, pexelsKey, targetTotal, categoryTable, perPage,
           progress, catIdx, queryIdx, page, fetchedForQuery, categoryCount,
           retries, unsplashImagesLength, uniqueImages,
           progressFile, outputFile, pexelsOutput, ckpt, reqCats, firstReq, sleepMs, delayed>>

dvars == <<dpc, accumulated, dedupOnce, dedupTwice>>

gvars == <<gpc, catalogFile, images, imagesByCategory, groupIdx, i,
           categoryListings, listings, listingsFile, exitCode>>

pvars == <<ppc, priceCategory, condition, basePrice, price>>

tvars == <<tpc, tagImages, tagCategory, materials, tagCondition, tags>>

titlevars == <<titlepc, titleCategory, titleMaterial, template, title>>

vars == <<fvars, dvars, gvars, pvars, tvars, titlevars>>

NotFetcher == <<dvars, gvars, pvars, tvars, titlevars>>
NotDedup == <<fvars, gvars, pvars, tvars, titlevars>>
NotGenerator == <<fvars, dvars, pvars, tvars, titlevars>>
NotPrice == <<fvars, dvars, gvars, tvars, titlevars>>
NotTags == <<fvars, dvars, gvars, pvars, titlevars>>
NotTitle == <<fvars, dvars, gvars, pvars, tvars>>

----------------------------------------------------------------------------
(* Helpers *)

Min(a, b) == IF a < b THEN a ELSE b

CeilDiv(a, b) == (a + b - 1) \div b

Range(s) == {s[j] : j \in 1..Len(s)}

SeqsUpTo(S, n) == UNION {[1..m -> S] : m \in 0..n}

RECURSIVE SelectSeq2(_, _)
SelectSeq2(s, src) ==
    IF s = <<>> THEN <<>>
    ELSE IF s[1].source = src THEN <<s[1]>> \o SelectSeq2(Tail(s), src)
    ELSE SelectSeq2(Tail(s), src)

----------------------------------------------------------------------------
(* fetch-images.ts: configuration *)

CATEGORY_NAMES ==
    <<"sofa", "dining-table", "bed", "wardrobe", "desk",
      "outdoor", "storage", "chair", "coffee-table", "entertainment">>

FURNITURE_CATEGORIES ==
    [c \in 1..NumCats |->
        [category |-> CATEGORY_NAMES[c],
         queries  |-> [q \in 1..QueriesPerCat |-> <<CATEGORY_NAMES[c], q>>],
         target   |-> CatTarget]]

\* Array.prototype.findIndex over the category table: 0-based, -1 if absent
FindIndex(name) ==
    IF \E c \in 1..Len(categoryTable) : categoryTable[c].category = name
    THEN (CHOOSE c \in 1..Len(categoryTable) : categoryTable[c].category = name) - 1
    ELSE -1

EmptyProgress == [completed |-> 0, lastCategory |-> "", images |-> <<>>]

----------------------------------------------------------------------------
(* fetch-images.ts: finalize, deduplication *)

\* a set that appends the entry whether or not the key is present
MapSetAppends(m, k, v) == Append(m, <<k, v>>)

\* a set that keeps the value of a key that is present
MapSetKeepsFirst(m, k, v) ==
    IF \E j \in 1..Len(m) : m[j][1] = k
    THEN m
    ELSE Append(m, <<k, v>>)

\* Map.prototype.set on a Map kept as the sequence of its <<key, value>>
\* entries in insertion order: an existing key keeps its position and takes
\* the new value, a new key is appended.
MapSet(m, k, v) ==
    IF \E j \in 1..Len(m) : m[j][1] = k
    THEN [j \in 1..Len(m) |-> IF m[j][1] = k THEN <<k, v>> ELSE m[j]]
    ELSE Append(m, <<k, v>>)

\* new Map(entries)
RECURSIVE NewMap(_)
NewMap(entries) ==
    IF entries = <<>> THEN <<>>
    ELSE LET n == Len(entries)
         IN  MapSet(NewMap(SubSeq(entries, 1, n - 1)), entries[n][1], entries[n][2])

\* Array.from(map.values())
MapValues(m) == [j \in 1..Len(m) |-> m[j][2]]

\* the key of the entry built for one image: [img.id, img]
DedupKey(img) == img.id

\* Array.from(new Map(images.map(img => [img.id, img])).values())
Dedup(imgs) ==
    MapValues(NewMap([j \in 1..Len(imgs) |-> <<DedupKey(imgs[j]), imgs[j]>>]))

\* uniqueImages.reduce(... acc[img.category] + 1 ...)
ByCategory(imgs) ==
    [c \in {imgs[j].category : j \in 1..Len(imgs)} |->
        Cardinality({j \in 1..Len(imgs) : imgs[j].category = c})]

\* const output = { meta: {...}, images: uniqueImages }
Output(unique) ==
    [meta   |-> [totalImages   |-> Len(unique),
                 unsplashCount |-> Len(SelectSeq2(unique, "unsplash")),
                 pexelsCount   |-> Len(SelectSeq2(unique, "pexels")),
                 categories    |-> ByCategory(unique)],
     images |-> unique]

----------------------------------------------------------------------------
(* fetch-images.ts: the run.  A local variable that goes out of scope (the
   loop variables at the end of their loop, retries at the return of the
   fetch call) is set back to its initial value. *)

LoopReset ==
    /\ catIdx' = 1
    /\ queryIdx' = 1
    /\ page' = 1
    /\ fetchedForQuery' = 0
    /\ categoryCount' = 0
    /\ retries' = 0
    /\ unsplashImagesLength' = 0

\* the process before main has run: nothing in memory, no output file
ProcessStart ==
    /\ pc = "main"
    /\ progress = EmptyProgress
    /\ catIdx = 1
    /\ queryIdx = 1
    /\ page = 1
    /\ fetchedForQuery = 0
    /\ categoryCount = 0
    /\ retries = 0
    /\ unsplashImagesLength = 0
    /\ uniqueImages = <<>>
    /\ outputFile = <<>>
    /\ pexelsOutput = <<>>
    /\ ckpt = <<>>
    /\ reqCats = {}
    /\ firstReq = <<>>
    /\ sleepMs = 0
    /\ delayed = TRUE

\* the process before main has run, on a directory without a progress file
FStart ==
    /\ ProcessStart
    /\ progressFile = <<>>

FInit ==
    /\ unsplashKey \in BOOLEAN
    /\ pexelsKey \in BOOLEAN
    /\ targetTotal \in 1..MaxTarget
    /\ categoryTable = FURNITURE_CATEGORIES
    /\ perPage = MaxPageLen
    /\ FStart

Files == <<progressFile, outputFile, pexelsOutput>>
Keys == <<unsplashKey, pexelsKey, targetTotal, categoryTable, perPage>>
Observed == <<ckpt, reqCats, firstReq>>
Loop == <<catIdx, queryIdx, page, fetchedForQuery, categoryCount, retries, unsplashImagesLength>>

CatConfig == categoryTable[catIdx]
PerQuery == CeilDiv(CatConfig.target, Len(CatConfig.queries))

\* a constructor that accepts a job without any key
ConstructWithoutKeyCheck ==
    /\ pc = "main"
    /\ pc' = "load"
    /\ progress' = EmptyProgress
    /\ sleepMs' = 0
    /\ UNCHANGED <<Keys, Loop, uniqueImages, Files, Observed>>
    /\ UNCHANGED delayed
    /\ UNCHANGED NotFetcher

\* main: new ImageFetcher().  Without any key the constructor throws,
\* outside of main's try block: the process ends with an error.
Construct ==
    /\ pc = "main"
    /\ IF ~unsplashKey /\ ~pexelsKey
       THEN /\ pc' = "fatal"
            /\ UNCHANGED progress
       ELSE /\ pc' = "load"
            /\ progress' = EmptyProgress
    /\ sleepMs' = 0
    /\ UNCHANGED <<Keys, Loop, uniqueImages, Files, Observed>>
    /\ UNCHANGED delayed
    /\ UNCHANGED NotFetcher

\* loadProgress that reads the file but starts from the empty state
LoadProgressDropsCheckpoint ==
    /\ pc = "load"
    /\ progress' = progress
    /\ ckpt' = progressFile
    /\ pc' = "cat"
    /\ sleepMs' = 0
    /\ UNCHANGED <<Keys, Loop, uniqueImages, Files, reqCats, firstReq>>
    /\ UNCHANGED delayed
    /\ UNCHANGED NotFetcher

\* fetchAll: await this.loadProgress()
LoadProgress ==
    /\ pc = "load"
    /\ IF progressFile # <<>>
       THEN progress' = progressFile[1]
       ELSE progress' = progress
    /\ ckpt' = progressFile
    /\ pc' = "cat"
    /\ sleepMs' = 0
    /\ UNCHANGED <<Keys, Loop, uniqueImages, Files, reqCats, firstReq>>
    /\ UNCHANGED delayed
    /\ UNCHANGED NotFetcher

\* the skip test off by one: the category just before lastCategory is kept
SkipCategoryOffByOne(category) ==
    /\ progress.lastCategory # ""
    /\ FindIndex(progress.lastCategory) > FindIndex(category) + 1

\* "Skip if already processed"
SkipCategory(category) ==
    /\ progress.lastCategory # ""
    /\ FindIndex(progress.lastCategory) > FindIndex(category)

\* for (const catConfig of FURNITURE_CATEGORIES): loop head
NextCategory ==
    /\ pc = "cat"
    /\ sleepMs' = 0
    /\ IF catIdx > Len(categoryTable)
       THEN /\ pc' = "finalize"
            /\ catIdx' = 1
            /\ UNCHANGED <<queryIdx, page, fetchedForQuery, categoryCount, retries>>
       ELSE IF SkipCategory(CatConfig.category)
       THEN /\ pc' = "cat"
            /\ catIdx' = catIdx + 1
            /\ UNCHANGED <<queryIdx, page, fetchedForQuery, categoryCount, retries>>
       ELSE /\ pc' = "query"
            /\ categoryCount' = 0
            /\ queryIdx' = 1
            /\ UNCHANGED <<catIdx, page, fetchedForQuery, retries>>
    /\ UNCHANGED <<Keys, progress, unsplashImagesLength, uniqueImages, Files, Observed>>
    /\ UNCHANGED delayed
    /\ UNCHANGED NotFetcher

\* for (const query of queries): loop head
NextQuery ==
    /\ pc = "query"
    /\ sleepMs' = 0
    /\ IF queryIdx > Len(CatConfig.queries) \/ categoryCount >= CatConfig.target
       THEN /\ pc' = "catEnd"
            /\ queryIdx' = 1
            /\ UNCHANGED <<page, fetchedForQuery>>
       ELSE /\ pc' = "while"
            /\ page' = 1
            /\ fetchedForQuery' = 0
            /\ UNCHANGED queryIdx
    /\ UNCHANGED <<Keys, progress, catIdx, categoryCount, retries, unsplashImagesLength,
                   uniqueImages, Files, Observed>>
    /\ UNCHANGED delayed
    /\ UNCHANGED NotFetcher

\* a loop head that tests the quota of the query only
PageLoopIgnoresTarget ==
    /\ pc = "while"
    /\ sleepMs' = 0
    /\ IF fetchedForQuery < PerQuery
       THEN /\ pc' = IF unsplashKey THEN "unsplash" ELSE "pexelsCheck"
            /\ retries' = 0
            /\ UNCHANGED <<queryIdx, page, fetchedForQuery>>
       ELSE /\ pc' = "query"
            /\ queryIdx' = queryIdx + 1
            /\ page' = 1
            /\ fetchedForQuery' = 0
            /\ UNCHANGED retries
    /\ UNCHANGED <<Keys, progress, catIdx, categoryCount, unsplashImagesLength,
                   uniqueImages, Files, Observed>>
    /\ delayed' = IF pc' = "unsplash" THEN TRUE ELSE delayed
    /\ UNCHANGED NotFetcher

\* while (fetchedForQuery < perQuery && completed < targetTotal): loop head,
\* and the entry of fetchUnsplash when the key is set
PageLoop ==
    /\ pc = "while"
    /\ sleepMs' = 0
    /\ IF fetchedForQuery < PerQuery /\ progress.completed < targetTotal
       THEN /\ pc' = IF unsplashKey THEN "unsplash" ELSE "pexelsCheck"
            /\ retries' = 0
            /\ UNCHANGED <<queryIdx, page, fetchedForQuery>>
       ELSE /\ pc' = "query"
            /\ queryIdx' = queryIdx + 1
            /\ page' = 1
            /\ fetchedForQuery' = 0
            /\ UNCHANGED retries
    /\ UNCHANGED <<Keys, progress, catIdx, categoryCount, unsplashImagesLength,
                   uniqueImages, Files, Observed>>
    /\ delayed' = IF pc' = "unsplash" THEN TRUE ELSE delayed
    /\ UNCHANGED NotFetcher

\* axios.get(...): one provider request is issued
Request ==
    /\ reqCats' = reqCats \cup {catIdx - 1}
    /\ firstReq' = IF firstReq = <<>> THEN <<catIdx - 1>> ELSE firstReq
    /\ UNCHANGED ckpt

\* the provider's mapping without the orchestrator's override: category: query
ImagesKeepQueryCategory(ids, src) ==
    [j \in 1..Len(ids) |->
        [id |-> ids[j], source |-> src, category |-> CatConfig.queries[queryIdx]]]

\* response.data.results.map(...) followed by the orchestrator's
\* img.category = category
Images(ids, src) ==
    [j \in 1..Len(ids) |->
        [id |-> ids[j], source |-> src, category |-> CatConfig.category]]

\* an Accumulate that appends the page without counting it
AccumulateForgetsCount(imgs, save, next) ==
    /\ IF Len(imgs) > 0
       THEN /\ progress' = [progress EXCEPT !.images = progress.images \o imgs]
            /\ categoryCount' = categoryCount + Len(imgs)
            /\ fetchedForQuery' = fetchedForQuery + Len(imgs)
            /\ pc' = save
       ELSE /\ UNCHANGED <<progress, categoryCount, fetchedForQuery>>
            /\ pc' = next
    /\ UNCHANGED progressFile
    /\ sleepMs' = 0
    /\ retries' = 0

\* an Accumulate that replaces the accumulated list by the page
AccumulateReplaces(imgs, save, next) ==
    /\ IF Len(imgs) > 0
       THEN /\ progress' = [progress EXCEPT !.images = imgs,
                                           !.completed = progress.completed + Len(imgs)]
            /\ categoryCount' = categoryCount + Len(imgs)
            /\ fetchedForQuery' = fetchedForQuery + Len(imgs)
            /\ pc' = save
       ELSE /\ UNCHANGED <<progress, categoryCount, fetchedForQuery>>
            /\ pc' = next
    /\ UNCHANGED progressFile
    /\ sleepMs' = 0
    /\ retries' = 0

\* the body of "if (images.length > 0)" up to the call of saveProgress:
\* the page is in memory, the write of the progress file is the next step
Accumulate(imgs, save, next) ==
    /\ IF Len(imgs) > 0
       THEN /\ progress' = [progress EXCEPT !.images = progress.images \o imgs,
                                           !.completed = progress.completed + Len(imgs)]
            /\ categoryCount' = categoryCount + Len(imgs)
            /\ fetchedForQuery' = fetchedForQuery + Len(imgs)
            /\ pc' = save
       ELSE /\ UNCHANGED <<progress, categoryCount, fetchedForQuery>>
            /\ pc' = next
    /\ UNCHANGED progressFile
    /\ sleepMs' = 0
    /\ retries' = 0

\* saveProgress: the progress file is overwritten with the whole state p
SaveProgress(p) == progressFile' = <<p>>

\* a page step that sleeps without writing the progress file
SavePageSkipsWrite ==
    /\ pc \in {"unsplashSave", "pexelsSave"}
    /\ UNCHANGED progressFile
    /\ sleepMs' = RATE_LIMIT_DELAY
    /\ pc' = IF pc = "unsplashSave" THEN "pexelsCheck" ELSE "pageInc"
    /\ UNCHANGED <<Keys, progress, Loop, uniqueImages, outputFile, pexelsOutput, Observed>>
    /\ delayed' = TRUE
    /\ UNCHANGED NotFetcher

\* await this.saveProgress(); await this.sleep(RATE_LIMIT_DELAY)
SavePage ==
    /\ pc \in {"unsplashSave", "pexelsSave"}
    /\ SaveProgress(progress)
    /\ sleepMs' = RATE_LIMIT_DELAY
    /\ pc' = IF pc = "unsplashSave" THEN "pexelsCheck" ELSE "pageInc"
    /\ UNCHANGED <<Keys, progress, Loop, uniqueImages, outputFile, pexelsOutput, Observed>>
    /\ delayed' = TRUE
    /\ UNCHANGED NotFetcher

\* a catch block that gives up one failure later
FailureCeilingOff(rateLimited, here, next) ==
    /\ LET attempts == retries + 1
       IN  /\ sleepMs' = IF rateLimited
                         THEN RATE_LIMIT_WAIT + BACKOFF_UNIT * attempts
                         ELSE BACKOFF_UNIT * attempts
           /\ IF attempts < MAX_RETRIES + 1
              THEN pc' = here /\ retries' = attempts
              ELSE pc' = next /\ retries' = 0
    /\ UNCHANGED <<progress, categoryCount, fetchedForQuery, progressFile>>

\* the catch block of fetchUnsplash / fetchPexels
Failure(rateLimited, here, next) ==
    /\ LET attempts == retries + 1
       IN  /\ sleepMs' = IF rateLimited
                         THEN RATE_LIMIT_WAIT + BACKOFF_UNIT * attempts
                         ELSE IF attempts >= MAX_RETRIES THEN 0
                         ELSE BACKOFF_UNIT * attempts
           /\ IF attempts < MAX_RETRIES
              THEN pc' = here /\ retries' = attempts
              ELSE pc' = next /\ retries' = 0
    /\ UNCHANGED <<progress, categoryCount, fetchedForQuery, progressFile>>

MaxOf(S) == IF S = {} THEN 0 ELSE CHOOSE x \in S : \A y \in S : y <= x

\* the pages a provider can answer with: up to perPage distinct photos.
\* Photo ids are opaque, so a photo the run has not seen before takes the
\* next unused number.
Responses ==
    {ids \in SeqsUpTo(1..MaxId, perPage) :
        /\ \A a, b \in 1..Len(ids) : a # b => ids[a] # ids[b]
        /\ \A a \in 1..Len(ids) :
              ids[a] <= 1 + MaxOf({progress.images[j].id : j \in 1..Len(progress.images)}
                                 \cup {ids[b] : b \in 1..(a - 1)})}

\* fetchUnsplash answers with a page of results
UnsplashOk ==
    /\ pc = "unsplash"
    /\ Request
    /\ \E ids \in Responses :
          /\ Accumulate(Images(ids, "unsplash"), "unsplashSave", "pexelsCheck")
          /\ unsplashImagesLength' = Len(ids)
    /\ UNCHANGED <<Keys, catIdx, queryIdx, page, uniqueImages, outputFile, pexelsOutput>>
    /\ delayed' = FALSE
    /\ UNCHANGED NotFetcher

\* fetchUnsplash: the request fails (429 or any other error)
UnsplashFail ==
    /\ pc = "unsplash"
    /\ Request
    /\ \E rateLimited \in BOOLEAN : Failure(rateLimited, "unsplash", "pexelsCheck")
    /\ UNCHANGED <<Keys, catIdx, queryIdx, page, unsplashImagesLength,
                   uniqueImages, outputFile, pexelsOutput>>
    /\ delayed' = (pc' = pc \/ sleepMs' > 0)
    /\ UNCHANGED NotFetcher

\* a fallback condition that ignores the quota and the target
PexelsCheckIgnoresQuota ==
    /\ pc = "pexelsCheck"
    /\ sleepMs' = 0
    /\ retries' = 0
    /\ pc' = IF pexelsKey THEN "pexels" ELSE "pageInc"
    /\ UNCHANGED <<Keys, progress, catIdx, queryIdx, page, fetchedForQuery,
                   categoryCount, unsplashImagesLength, uniqueImages, Files, Observed>>
    /\ delayed' = IF pc' = "pexels" THEN TRUE ELSE delayed
    /\ UNCHANGED NotFetcher

\* "Fallback to Pexels if needed": the condition, and the entry of fetchPexels
PexelsCheck ==
    /\ pc = "pexelsCheck"
    /\ sleepMs' = 0
    /\ retries' = 0
    /\ pc' = IF fetchedForQuery < PerQuery /\ pexelsKey /\ progress.completed < targetTotal
             THEN "pexels" ELSE "pageInc"
    /\ UNCHANGED <<Keys, progress, catIdx, queryIdx, page, fetchedForQuery,
                   categoryCount, unsplashImagesLength, uniqueImages, Files, Observed>>
    /\ delayed' = IF pc' = "pexels" THEN TRUE ELSE delayed
    /\ UNCHANGED NotFetcher

PexelsOk ==
    /\ pc = "pexels"
    /\ Request
    /\ \E ids \in Responses : Accumulate(Images(ids, "pexels"), "pexelsSave", "pageInc")
    /\ UNCHANGED <<Keys, catIdx, queryIdx, page, unsplashImagesLength,
                   uniqueImages, outputFile, pexelsOutput>>
    /\ delayed' = FALSE
    /\ UNCHANGED NotFetcher

PexelsFail ==
    /\ pc = "pexels"
    /\ Request
    /\ \E rateLimited \in BOOLEAN : Failure(rateLimited, "pexels", "pageInc")
    /\ UNCHANGED <<Keys, catIdx, queryIdx, page, unsplashImagesLength,
                   uniqueImages, outputFile, pexelsOutput>>
    /\ delayed' = (pc' = pc \/ sleepMs' > 0)
    /\ UNCHANGED NotFetcher

\* a page loop that asks for the same page again
PageIncStaysOnPage ==
    /\ pc = "pageInc"
    /\ sleepMs' = 0
    /\ pc' = "while"
    /\ unsplashImagesLength' = 0
    /\ UNCHANGED <<Keys, progress, catIdx, queryIdx, page, fetchedForQuery,
                   categoryCount, retries, uniqueImages, Files, Observed>>
    /\ UNCHANGED delayed
    /\ UNCHANGED NotFetcher

\* page++; if (page > 10) break
PageInc ==
    /\ pc = "pageInc"
    /\ sleepMs' = 0
    /\ IF page + 1 > MAX_PAGES
       THEN /\ pc' = "query"
            /\ queryIdx' = queryIdx + 1
            /\ page' = 1
            /\ fetchedForQuery' = 0
       ELSE /\ pc' = "while"
            /\ page' = page + 1
            /\ UNCHANGED <<queryIdx, fetchedForQuery>>
    /\ unsplashImagesLength' = 0
    /\ UNCHANGED <<Keys, progress, catIdx, categoryCount, retries,
                   uniqueImages, Files, Observed>>
    /\ UNCHANGED delayed
    /\ UNCHANGED NotFetcher

\* this.progress.lastCategory = category; await this.saveProgress();
\* if (completed >= targetTotal) break
CategoryEnd ==
    /\ pc = "catEnd"
    /\ sleepMs' = 0
    /\ progress' = [progress EXCEPT !.lastCategory = CatConfig.category]
    /\ SaveProgress(progress')
    /\ categoryCount' = 0
    /\ IF progress.completed >= targetTotal
       THEN /\ pc' = "finalize"
            /\ catIdx' = 1
       ELSE /\ pc' = "cat"
            /\ catIdx' = catIdx + 1
    /\ UNCHANGED <<Keys, queryIdx, page, fetchedForQuery, retries, unsplashImagesLength,
                   uniqueImages, outputFile, pexelsOutput, Observed>>
    /\ UNCHANGED delayed
    /\ UNCHANGED NotFetcher

\* finalize: deduplicate and "Save main output"
Finalize ==
    /\ pc = "finalize"
    /\ sleepMs' = 0
    /\ uniqueImages' = Dedup(progress.images)
    /\ outputFile' = <<Output(uniqueImages')>>
    /\ pc' = "saveUnsplash"
    /\ UNCHANGED <<Keys, progress, Loop, progressFile, pexelsOutput, Observed>>
    /\ UNCHANGED delayed
    /\ UNCHANGED NotFetcher

\* finalize: "Save source-specific files", Unsplash
SaveUnsplash ==
    /\ pc = "saveUnsplash"
    /\ sleepMs' = 0
    /\ LET unsplashImages == SelectSeq2(uniqueImages, "unsplash")
       IN  IF Len(unsplashImages) > 0
           THEN outputFile' = <<[Output(uniqueImages) EXCEPT !.images = unsplashImages]>>
           ELSE UNCHANGED outputFile
    /\ pc' = "savePexels"
    /\ UNCHANGED <<Keys, progress, Loop, uniqueImages, progressFile, pexelsOutput, Observed>>
    /\ UNCHANGED delayed
    /\ UNCHANGED NotFetcher

\* finalize: "Save source-specific files", Pexels
SavePexels ==
    /\ pc = "savePexels"
    /\ sleepMs' = 0
    /\ LET pexelsImages == SelectSeq2(uniqueImages, "pexels")
       IN  IF Len(pexelsImages) > 0
           THEN pexelsOutput' = <<[Output(uniqueImages) EXCEPT !.images = pexelsImages]>>
           ELSE UNCHANGED pexelsOutput
    /\ pc' = "unlink"
    /\ UNCHANGED <<Keys, progress, Loop, uniqueImages, progressFile, outputFile, Observed>>
    /\ UNCHANGED delayed
    /\ UNCHANGED NotFetcher

\* a clean-up that leaves the progress file
UnlinkKeepsCheckpoint ==
    /\ pc = "unlink"
    /\ sleepMs' = 0
    /\ UNCHANGED progressFile
    /\ pc' = "done"
    /\ UNCHANGED <<Keys, progress, Loop, uniqueImages, outputFile, pexelsOutput, Observed>>
    /\ UNCHANGED delayed
    /\ UNCHANGED NotFetcher

\* finalize: "Clean up progress file"; then main exits with status 0
Unlink ==
    /\ pc = "unlink"
    /\ sleepMs' = 0
    /\ progressFile' = <<>>
    /\ pc' = "done"
    /\ UNCHANGED <<Keys, progress, Loop, uniqueImages, outputFile, pexelsOutput, Observed>>
    /\ UNCHANGED delayed
    /\ UNCHANGED NotFetcher

\* The process is terminated at an await point and the job is started again
\* with the same arguments: memory is lost, the files stay.
Restart ==
    /\ pc \notin {"main", "fatal", "done"}
    /\ UNCHANGED <<targetTotal, categoryTable, perPage>>
    /\ pc' = "main"
    /\ progress' = EmptyProgress
    /\ LoopReset
    /\ uniqueImages' = <<>>
    /\ ckpt' = <<>>
    /\ reqCats' = {}
    /\ firstReq' = <<>>
    /\ sleepMs' = 0
    /\ UNCHANGED <<unsplashKey, pexelsKey, Files>>
    /\ delayed' = TRUE
    /\ UNCHANGED NotFetcher

FNext ==
    \/ Construct
    \/ LoadProgress
    \/ NextCategory
    \/ NextQuery
    \/ PageLoop
    \/ UnsplashOk
    \/ UnsplashFail
    \/ PexelsCheck
    \/ PexelsOk
    \/ PexelsFail
    \/ SavePage
    \/ PageInc
    \/ CategoryEnd
    \/ Finalize
    \/ SaveUnsplash
    \/ SavePexels
    \/ Unlink
    \/ Restart

----------------------------------------------------------------------------
(* fetch-images.ts: the deduplication of finalize, applied to any list *)

Sources == {"unsplash", "pexels"}

ImageRecords ==
    [id : 1..MaxId, source : Sources,
     category : {FURNITURE_CATEGORIES[c].category : c \in 1..NumCats}]

DInit ==
    /\ dpc = "input"
    /\ accumulated \in SeqsUpTo(ImageRecords, MaxDedupLen)
    /\ dedupOnce = <<>>
    /\ dedupTwice = <<>>

\* finalize on the accumulated list
DedupFirst ==
    /\ dpc = "input"
    /\ dedupOnce' = Dedup(accumulated)
    /\ dpc' = "once"
    /\ UNCHANGED <<accumulated, dedupTwice>>
    /\ UNCHANGED NotDedup

\* finalize again, on the output of the first
DedupSecond ==
    /\ dpc = "once"
    /\ dedupTwice' = Dedup(dedupOnce)
    /\ dpc' = "twice"
    /\ UNCHANGED <<accumulated, dedupOnce>>
    /\ UNCHANGED NotDedup

----------------------------------------------------------------------------
(* generate-listings.ts: ListingGenerator *)

MAX_IMAGES_PER_LISTING == 5

GeneratorCategories == {CATEGORY_NAMES[c] : c \in 1..NumGroups}

\* the catalogs the generator may find: an unreadable file, a JSON object
\* without images field, and catalogs of up to MaxCatalogLen images; the id
\* of an image is its position in the catalog
Catalogs ==
    {<<>>, <<[meta |-> "none"]>>} \cup
    {<<[images |-> [j \in 1..Len(cs) |-> [id |-> j, category |-> cs[j]]]]>> :
        cs \in SeqsUpTo(GeneratorCategories, MaxCatalogLen)}

GInit ==
    /\ gpc = "main"
    /\ catalogFile \in Catalogs
    /\ images = <<>>
    /\ imagesByCategory = <<>>
    /\ groupIdx = 1
    /\ i = 0
    /\ categoryListings = <<>>
    /\ listings = <<>>
    /\ listingsFile = <<>>
    /\ exitCode = <<>>

\* loadImages: readFile throws for an unreadable file and main's catch
\* exits with status 1; otherwise this.images = parsed.images || []
LoadImages ==
    /\ gpc = "main"
    /\ IF catalogFile = <<>>
       THEN /\ gpc' = "failed"
            /\ exitCode' = <<1>>
            /\ UNCHANGED images
       ELSE /\ images' = IF "images" \in DOMAIN catalogFile[1]
                         THEN catalogFile[1].images
                         ELSE <<>>
            /\ gpc' = "group"
            /\ UNCHANGED exitCode
    /\ UNCHANGED <<catalogFile, imagesByCategory, groupIdx, i, categoryListings,
                   listings, listingsFile>>
    /\ UNCHANGED NotGenerator

\* acc[img.category].push(img), on the entries <<category, images>> of acc
PushGroup(acc, img) ==
    IF \E g \in 1..Len(acc) : acc[g][1] = img.category
    THEN [g \in 1..Len(acc) |->
            IF acc[g][1] = img.category THEN <<acc[g][1], Append(acc[g][2], img)>>
            ELSE acc[g]]
    ELSE Append(acc, <<img.category, <<img>>>>)

\* this.images.reduce(...)
RECURSIVE GroupByCategory(_)
GroupByCategory(imgs) ==
    IF imgs = <<>> THEN <<>>
    ELSE LET n == Len(imgs)
         IN  PushGroup(GroupByCategory(SubSeq(imgs, 1, n - 1)), imgs[n])

\* generateAllListings: const imagesByCategory = ...
GroupImages ==
    /\ gpc = "group"
    /\ imagesByCategory' = GroupByCategory(images)
    /\ groupIdx' = 1
    /\ gpc' = "category"
    /\ UNCHANGED <<catalogFile, images, i, categoryListings, listings, listingsFile,
                   exitCode>>
    /\ UNCHANGED NotGenerator

\* for (const [category, categoryImages] of Object.entries(...)): loop head
NextGroup ==
    /\ gpc = "category"
    /\ IF groupIdx > Len(imagesByCategory)
       THEN /\ gpc' = "save"
            /\ UNCHANGED <<i, categoryListings>>
       ELSE /\ i' = 0
            /\ categoryListings' = <<>>
            /\ gpc' = "window"
    /\ UNCHANGED <<catalogFile, images, imagesByCategory, groupIdx, listings,
                   listingsFile, exitCode>>
    /\ UNCHANGED NotGenerator

CategoryImages == imagesByCategory[groupIdx][2]

\* the largest window without the cap of 5
MaxImagesPerListingUncapped(n, at) == n - at

\* the largest window: Math.min(5, categoryImages.length - i)
MaxImagesPerListing(n, at) == Min(MAX_IMAGES_PER_LISTING, n - at)

\* a slice that takes the element at the end index too
SliceInclusive(s, from, to) == SubSeq(s, from + 1, Min(to + 1, Len(s)))

\* Array.prototype.slice(from, to), 0-based, to exclusive
Slice(s, from, to) == SubSeq(s, from + 1, Min(to, Len(s)))

\* generateListing: the fields that depend on the window
GenerateListing(window) ==
    [images   |-> [j \in 1..Len(window) |-> window[j].id],
     category |-> window[1].category]

\* one turn of while (i < categoryImages.length)
Window ==
    /\ gpc = "window"
    /\ i < Len(CategoryImages)
    /\ \E imagesPerListing \in 1..MaxImagesPerListing(Len(CategoryImages), i) :
          /\ categoryListings' =
                Append(categoryListings,
                       GenerateListing(Slice(CategoryImages, i, i + imagesPerListing)))
          /\ i' = i + imagesPerListing
    /\ UNCHANGED <<gpc, catalogFile, images, imagesByCategory, groupIdx, listings,
                   listingsFile, exitCode>>
    /\ UNCHANGED NotGenerator

\* the while loop ends: listings.push(...categoryListings)
GroupDone ==
    /\ gpc = "window"
    /\ ~(i < Len(CategoryImages))
    /\ listings' = listings \o categoryListings
    /\ groupIdx' = groupIdx + 1
    /\ gpc' = "category"
    /\ UNCHANGED <<catalogFile, images, imagesByCategory, i, categoryListings,
                   listingsFile, exitCode>>
    /\ UNCHANGED NotGenerator

\* "Save output", the report, and main's process.exit(0)
SaveListings ==
    /\ gpc = "save"
    /\ listingsFile' =
          <<[meta     |-> [totalListings |-> Len(listings),
                           totalImages   |-> Len(images),
                           categories    |-> [g \in 1..Len(imagesByCategory) |->
                                                 imagesByCategory[g][1]]],
             listings |-> listings]>>
    /\ exitCode' = <<0>>
    /\ gpc' = "done"
    /\ UNCHANGED <<catalogFile, images, imagesByCategory, groupIdx, i,
                   categoryListings, listings>>
    /\ UNCHANGED NotGenerator

----------------------------------------------------------------------------
(* generate-listings.ts: generateListing, the price *)

PRICE_RANGES ==
    [c \in {CATEGORY_NAMES[k] : k \in 1..10} |->
        CASE c = "sofa"          -> [min |-> 45000, max |-> 350000]
          [] c = "dining-table"  -> [min |-> 55000, max |-> 280000]
          [] c = "bed"           -> [min |-> 38000, max |-> 185000]
          [] c = "wardrobe"      -> [min |-> 52000, max |-> 220000]
          [] c = "desk"          -> [min |-> 28000, max |-> 125000]
          [] c = "outdoor"       -> [min |-> 65000, max |-> 250000]
          [] c = "storage"       -> [min |-> 22000, max |-> 95000]
          [] c = "chair"         -> [min |-> 15000, max |-> 85000]
          [] c = "coffee-table"  -> [min |-> 18000, max |-> 78000]
          [] c = "entertainment" -> [min |-> 25000, max |-> 110000]]

\* PRICE_RANGES[category] || { min: 20000, max: 150000 }
PriceRange(c) ==
    IF c \in DOMAIN PRICE_RANGES THEN PRICE_RANGES[c]
    ELSE [min |-> 20000, max |-> 150000]

Conditions == {"new", "excellent", "good", "fair"}

\* conditionMultipliers, in hundredths
ConditionMultipliers ==
    [c \in Conditions |->
        CASE c = "new" -> 100 [] c = "excellent" -> 85 [] c = "good" -> 65
          [] c = "fair" -> 45]

\* Math.round(num / den): the nearest integer, a half goes up
Round(num, den) == (2 * num + den) \div (2 * den)

\* the price with Math.floor in place of Math.round
PriceFloor(base, cond) == ((base * ConditionMultipliers[cond]) \div 100000) * 1000

\* Math.round(basePrice * conditionMultipliers[condition] / 1000) * 1000
Price(base, cond) == Round(base * ConditionMultipliers[cond], 100000) * 1000

\* the base prices drawn in the model: PriceSamples + 1 values spread over
\* the range, both ends included
BasePrices(range) ==
    {range.min + ((range.max - range.min) * k) \div PriceSamples : k \in 0..PriceSamples}

PInit ==
    /\ ppc = "draw"
    /\ priceCategory \in DOMAIN PRICE_RANGES \cup {"unknown"}
    /\ condition \in Conditions
    /\ basePrice \in BasePrices(PriceRange(priceCategory))
    /\ price = 0

ComputePrice ==
    /\ ppc = "draw"
    /\ price' = Price(basePrice, condition)
    /\ ppc' = "priced"
    /\ UNCHANGED <<priceCategory, condition, basePrice>>
    /\ UNCHANGED NotPrice

----------------------------------------------------------------------------
(* generate-listings.ts: generateListing, the tags *)

MATERIALS_BY_CATEGORY ==
    [c \in Range(CATEGORY_NAMES) |->
        CASE c = "sofa"          -> <<"leather", "fabric", "velvet", "suede", "microfiber">>
          [] c = "dining-table"  -> <<"wood", "mahogany", "iroko", "oak", "glass", "marble">>
          [] c = "bed"           -> <<"wood", "metal", "upholstered", "leather", "velvet">>
          [] c = "wardrobe"      -> <<"wood", "plywood", "MDF", "solid wood", "laminate">>
          [] c = "desk"          -> <<"wood", "metal", "glass", "engineered wood">>
          [] c = "outdoor"       -> <<"wicker", "rattan", "teak", "aluminum", "plastic">>
          [] c = "storage"       -> <<"wood", "metal", "bamboo", "MDF">>
          [] c = "chair"         -> <<"wood", "metal", "fabric", "leather", "plastic">>
          [] c = "coffee-table"  -> <<"wood", "glass", "metal", "marble", "acrylic">>
          [] c = "entertainment" -> <<"wood", "MDF", "glass", "metal">>]

\* MATERIALS_BY_CATEGORY[category] || ['wood', 'metal']
MaterialOptions(c) ==
    IF c \in DOMAIN MATERIALS_BY_CATEGORY THEN MATERIALS_BY_CATEGORY[c]
    ELSE <<"wood", "metal">>

\* faker.helpers.arrayElements(options, faker.number.int({ min: 1, max: 2 })):
\* one or two different elements of options, in any order
Materials(c) ==
    {m \in SeqsUpTo(Range(MaterialOptions(c)), 2) :
        /\ Len(m) >= 1
        /\ \A a, b \in 1..Len(m) : a # b => m[a] # m[b]}

\* [...new Set(list)]: the elements of list in the order of their first
\* occurrence
RECURSIVE Spread(_)
Spread(list) ==
    IF list = <<>> THEN <<>>
    ELSE LET n == Len(list)
             front == Spread(SubSeq(list, 1, n - 1))
         IN  IF list[n] \in Range(front) THEN front ELSE Append(front, list[n])

\* tags: [...new Set([...images[0].tags, category, ...materials, condition])]
Tags(imgs, c, mats, cond) ==
    Spread(imgs[1].tags \o <<c>> \o mats \o <<cond>>)

\* the tags an image of the catalog may carry: a tag of its own and a word
\* that is also a material
ImageTags == SeqsUpTo({"modern", "leather"}, MaxImageTags)

TagCategories == GeneratorCategories \cup {"unknown"}

TInit ==
    /\ tpc = "draw"
    /\ tagCategory \in TagCategories
    /\ tagImages \in {w \in SeqsUpTo({[category |-> tagCategory, tags |-> t] : t \in ImageTags},
                                     MaxWindow) : Len(w) >= 1}
    /\ materials \in Materials(tagCategory)
    /\ tagCondition \in Conditions
    /\ tags = <<>>

ComputeTags ==
    /\ tpc = "draw"
    /\ tags' = Tags(tagImages, tagImages[1].category, materials, tagCondition)
    /\ tpc' = "tagged"
    /\ UNCHANGED <<tagImages, tagCategory, materials, tagCondition>>
    /\ UNCHANGED NotTags

----------------------------------------------------------------------------
(* generate-listings.ts: generateTitle.  A string is the sequence of its
   parts: a placeholder, a filler or the literal text between two of them. *)

TITLE_TEMPLATES ==
    [c \in Range(CATEGORY_NAMES) |->
        CASE c = "sofa" ->
               <<<<"{adj}", " ", "{material}", " ", "{seater}", "-Seater Sofa">>,
                 <<"Modern ", "{material}", " ", "{style}", " Sofa">>,
                 <<"{adj}", " L-Shaped ", "{material}", " Sectional">>,
                 <<"Contemporary ", "{material}", " Loveseat">>>>
          [] c = "dining-table" ->
               <<<<"{adj}", " ", "{material}", " Dining Table (", "{seats}", " Seater)">>,
                 <<"{material}", " ", "{style}", " Dining Set">>,
                 <<"Executive ", "{material}", " Dining Table">>,
                 <<"Round ", "{material}", " Dining Table">>>>
          [] c = "bed" ->
               <<<<"{size}", " ", "{material}", " Bed Frame">>,
                 <<"{adj}", " ", "{material}", " Platform Bed">>,
                 <<"{material}", " ", "{style}", " Bed with Storage">>,
                 <<"Upholstered ", "{size}", " Bed">>>>
          [] c = "wardrobe" ->
               <<<<"{doors}", "-Door ", "{material}", " Wardrobe">>,
                 <<"{adj}", " Sliding Wardrobe">>,
                 <<"{material}", " ", "{style}", " Armoire">>,
                 <<"Walk-in Closet System">>>>
          [] c = "desk" ->
               <<<<"{adj}", " ", "{material}", " Office Desk">>,
                 <<"Executive ", "{material}", " Writing Desk">>,
                 <<"{style}", " Study Table">>,
                 <<"Computer Desk with Storage">>>>
          [] c = "outdoor" ->
               <<<<"{material}", " Patio Set (", "{pieces}", "-Piece)">>,
                 <<"{adj}", " Garden Furniture Set">>,
                 <<"Outdoor Dining Set">>,
                 <<"{material}", " Lounge Chair">>>>
          [] c = "storage" ->
               <<<<"{adj}", " ", "{material}", " Bookshelf">>,
                 <<"{shelves}", "-Tier Display Cabinet">>,
                 <<"Storage Unit with Drawers">>,
                 <<"{material}", " ", "{style}", " Bookcase">>>>
          [] c = "chair" ->
               <<<<"{adj}", " ", "{material}", " Accent Chair">>,
                 <<"{style}", " Dining Chair (Set of ", "{qty}", ")">>,
                 <<"Executive Office Chair">>,
                 <<"{material}", " Recliner">>>>
          [] c = "coffee-table" ->
               <<<<"{adj}", " ", "{material}", " Coffee Table">>,
                 <<"{shape}", " ", "{material}", " Side Table">>,
                 <<"Nesting Tables (Set of ", "{qty}", ")">>,
                 <<"{material}", " End Table">>>>
          [] c = "entertainment" ->
               <<<<"{adj}", " TV Stand for ", "{size}", "\" TVs">>,
                 <<"{material}", " Media Console">>,
                 <<"{style}", " Entertainment Center">>,
                 <<"Floating TV Unit">>>>]

ADJECTIVES ==
    <<"Modern", "Contemporary", "Classic", "Elegant", "Luxury",
      "Minimalist", "Rustic", "Industrial", "Scandinavian", "Vintage",
      "Premium", "Executive", "Stylish", "Sleek", "Sophisticated">>

\* the arrays generateTitle draws its fillers from
STYLES == <<"Modern", "Classic", "Contemporary">>
SEATERS == <<"2", "3", "5", "7">>
SEATS == <<"4", "6", "8">>
BED_SIZES == <<"Queen", "King", "Twin", "Full">>
DOORS == <<"2", "3", "4", "5">>
PIECES == <<"3", "4", "5", "7">>
SHELVES == <<"3", "4", "5", "6">>
QUANTITIES == <<"2", "4", "6">>
SHAPES == <<"Round", "Square", "Rectangular", "Oval">>
TV_SIZES == <<"32", "43", "50", "55", "65", "75">>

Placeholders ==
    {"{adj}", "{material}", "{style}", "{seater}", "{seats}", "{size}",
     "{doors}", "{pieces}", "{shelves}", "{qty}", "{shape}"}

\* TITLE_TEMPLATES[category] || ['{adj} {material} Furniture']
Templates(c) ==
    IF c \in DOMAIN TITLE_TEMPLATES THEN TITLE_TEMPLATES[c]
    ELSE <<<<"{adj}", " ", "{material}", " Furniture">>>>

\* String.prototype.replace with a string pattern: the first occurrence of
\* token is replaced by value, a string without the token is returned as is
Replace(s, token, value) ==
    IF \E j \in 1..Len(s) : s[j] = token
    THEN LET first == CHOOSE j \in 1..Len(s) :
                          /\ s[j] = token
                          /\ \A k \in 1..(j - 1) : s[k] # token
         IN  [s EXCEPT ![first] = value]
    ELSE s

\* faker.helpers.arrayElement(vocabulary) for the replace of token.  The
\* draw for a token that the template does not hold cannot show in the
\* title; it is fixed to the first element.
Draw(t, token, vocabulary) ==
    IF token \in Range(t) THEN Range(vocabulary) ELSE {vocabulary[1]}

\* the chain of replace calls of generateTitle, in its order; f holds the
\* filler of each call
Substitute(t, f) ==
    LET r1  == Replace(t,   "{adj}",      f.adj)
        r2  == Replace(r1,  "{material}", f.material)
        r3  == Replace(r2,  "{style}",    f.style)
        r4  == Replace(r3,  "{seater}",   f.seater)
        r5  == Replace(r4,  "{seats}",    f.seatCount)
        r6  == Replace(r5,  "{size}",     f.size)
        r7  == Replace(r6,  "{doors}",    f.doors)
        r8  == Replace(r7,  "{pieces}",   f.pieces)
        r9  == Replace(r8,  "{shelves}",  f.shelves)
        r10 == Replace(r9,  "{qty}",      f.qty)
        r11 == Replace(r10, "{shape}",    f.shape)
    IN  Replace(r11, "{size}", f.tvSize)

TitleCategories == Range(CATEGORY_NAMES) \cup {"unknown"}

\* generateListing: the arguments of generateTitle(category, primaryMaterial)
TitleInit ==
    /\ titlepc = "call"
    /\ titleCategory \in TitleCategories
    /\ titleMaterial \in Range(MaterialOptions(titleCategory))
    /\ template = <<>>
    /\ title = <<>>

GenerateTitle ==
    /\ titlepc = "call"
    /\ \E t \in Range(Templates(titleCategory)) :
          /\ template' = t
          /\ \E adj \in Draw(t, "{adj}", ADJECTIVES),
                style \in Draw(t, "{style}", STYLES),
                seater \in Draw(t, "{seater}", SEATERS),
                seatCount \in Draw(t, "{seats}", SEATS),
                size \in Draw(t, "{size}", BED_SIZES),
                doors \in Draw(t, "{doors}", DOORS),
                pieces \in Draw(t, "{pieces}", PIECES),
                shelves \in Draw(t, "{shelves}", SHELVES),
                qty \in Draw(t, "{qty}", QUANTITIES),
                shape \in Draw(t, "{shape}", SHAPES),
                tvSize \in Draw(t, "{size}", TV_SIZES) :
                title' = Substitute(t,
                    [adj |-> adj, material |-> titleMaterial, style |-> style,
                     seater |-> seater, seatCount |-> seatCount, size |-> size,
                     doors |-> doors, pieces |-> pieces, shelves |-> shelves,
                     qty |-> qty, shape |-> shape, tvSize |-> tvSize])
    /\ titlepc' = "returned"
    /\ UNCHANGED <<titleCategory, titleMaterial>>
    /\ UNCHANGED NotTitle

----------------------------------------------------------------------------
(* Specifications: one per job.  The variables of the other jobs are idle. *)

TitleIdle ==
    /\ titlepc = "idle"
    /\ titleCategory = ""
    /\ titleMaterial = ""
    /\ template = <<>>
    /\ title = <<>>

TIdle ==
    /\ tpc = "idle"
    /\ tagImages = <<>>
    /\ tagCategory = ""
    /\ materials = <<>>
    /\ tagCondition = ""
    /\ tags = <<>>

FIdle ==
    /\ pc = "idle"
    /\ unsplashKey = FALSE
    /\ pexelsKey = FALSE
    /\ targetTotal = 0
    /\ categoryTable = <<>>
    /\ perPage = 0
    /\ progress = EmptyProgress
    /\ catIdx = 1
    /\ queryIdx = 1
    /\ page = 1
    /\ fetchedForQuery = 0
    /\ categoryCount = 0
    /\ retries = 0
    /\ unsplashImagesLength = 0
    /\ uniqueImages = <<>>
    /\ progressFile = <<>>
    /\ outputFile = <<>>
    /\ pexelsOutput = <<>>
    /\ ckpt = <<>>
    /\ reqCats = {}
    /\ firstReq = <<>>
    /\ sleepMs = 0
    /\ delayed = TRUE

DIdle ==
    /\ dpc = "idle"
    /\ accumulated = <<>>
    /\ dedupOnce = <<>>
    /\ dedupTwice = <<>>

GIdle ==
    /\ gpc = "idle"
    /\ catalogFile = <<>>
    /\ images = <<>>
    /\ imagesByCategory = <<>>
    /\ groupIdx = 1
    /\ i = 0
    /\ categoryListings = <<>>
    /\ listings = <<>>
    /\ listingsFile = <<>>
    /\ exitCode = <<>>

PIdle ==
    /\ ppc = "idle"
    /\ priceCategory = ""
    /\ condition = ""
    /\ basePrice = 0
    /\ price = 0

\* the acquisition job
Init == FInit /\ DIdle /\ GIdle /\ PIdle /\ TIdle /\ TitleIdle

Next == FNext

Spec == Init /\ [][Next]_vars

\* finalize's deduplication on every list
DedupInit == DInit /\ FIdle /\ GIdle /\ PIdle /\ TIdle /\ TitleIdle

DedupNext == DedupFirst \/ DedupSecond

DedupSpec == DedupInit /\ [][DedupNext]_vars

\* the synthesis job
GeneratorInit == GInit /\ FIdle /\ DIdle /\ PIdle /\ TIdle /\ TitleIdle

GeneratorNext ==
    \/ LoadImages
    \/ GroupImages
    \/ NextGroup
    \/ Window
    \/ GroupDone
    \/ SaveListings

GeneratorSpec == GeneratorInit /\ [][GeneratorNext]_vars

\* the price of a listing
PriceInit == PInit /\ FIdle /\ DIdle /\ GIdle /\ TIdle /\ TitleIdle

PriceNext == ComputePrice

PriceSpec == PriceInit /\ [][PriceNext]_vars

\* the tags of a listing
TagsInit == TInit /\ FIdle /\ DIdle /\ GIdle /\ PIdle /\ TitleIdle

TagsNext == ComputeTags

TagsSpec == TagsInit /\ [][TagsNext]_vars

\* the title of a listing
TitleSpecInit == TitleInit /\ FIdle /\ DIdle /\ GIdle /\ PIdle /\ TIdle

TitleNext == GenerateTitle

TitleSpec == TitleSpecInit /\ [][TitleNext]_vars

\* the acquisition job on a fresh directory with the Unsplash key only, the
\* category table reduced to one entry with one query, and the category
\* target, the total target and the page size all equal
ScenarioCategories ==
    <<[category |-> CATEGORY_NAMES[1],
       queries  |-> <<<<CATEGORY_NAMES[1], 1>>>>,
       target   |-> ScenarioTarget]>>

FreshInit ==
    /\ unsplashKey = TRUE
    /\ pexelsKey = FALSE
    /\ targetTotal = ScenarioTarget
    /\ categoryTable = ScenarioCategories
    /\ perPage = ScenarioTarget
    /\ FStart
    /\ DIdle /\ GIdle /\ PIdle /\ TIdle /\ TitleIdle

FreshNext ==
    \/ Construct
    \/ LoadProgress
    \/ NextCategory
    \/ NextQuery
    \/ PageLoop
    \/ UnsplashOk
    \/ UnsplashFail
    \/ SavePage
    \/ PexelsCheck
    \/ PageInc
    \/ CategoryEnd
    \/ Finalize
    \/ SaveUnsplash
    \/ SavePexels
    \/ Unlink

FreshSpec == FreshInit /\ [][FreshNext]_vars

\* The progress files loadProgress may find: JSON.parse takes the file as it
\* is, so the count, the last category and the image list of a file left by
\* another process or edited by hand need not agree with each other.
StoredCheckpoints ==
    {<<>>} \cup
    {<<[completed |-> c, lastCategory |-> l, images |-> imgs]>> :
        c \in 0..MaxTarget,
        l \in {"", CATEGORY_NAMES[1]},
        imgs \in {<<>>, <<[id |-> 1, source |-> "unsplash",
                          category |-> CATEGORY_NAMES[1]]>>}}

\* the acquisition job with both keys, started on a directory that holds no
\* progress file or any of StoredCheckpoints
CheckpointInit ==
    /\ unsplashKey = TRUE
    /\ pexelsKey = TRUE
    /\ targetTotal = MaxTarget
    /\ categoryTable = FURNITURE_CATEGORIES
    /\ perPage = MaxPageLen
    /\ ProcessStart
    /\ progressFile \in StoredCheckpoints
    /\ DIdle /\ GIdle /\ PIdle /\ TIdle /\ TitleIdle

\* one process from its start to its end
CheckpointNext ==
    \/ Construct
    \/ LoadProgress
    \/ NextCategory
    \/ NextQuery
    \/ PageLoop
    \/ UnsplashOk
    \/ UnsplashFail
    \/ PexelsCheck
    \/ PexelsOk
    \/ PexelsFail
    \/ SavePage
    \/ PageInc
    \/ CategoryEnd
    \/ Finalize
    \/ SaveUnsplash
    \/ SavePexels
    \/ Unlink

CheckpointSpec == CheckpointInit /\ [][CheckpointNext]_vars

----------------------------------------------------------------------------
(* Properties of the image fetcher *)

Resumed == ckpt # <<>>
Finalized == pc = "done"
IdsOf(imgs) == {imgs[j].id : j \in 1..Len(imgs)}

\* C1: a run resumed from a checkpoint whose lastCategory is the first entry
\* of FURNITURE_CATEGORIES issues no provider request for the first category,
\* and its first request is for the second category.
InterruptedResumeSkipsFirst ==
    (Resumed /\ ckpt[1].lastCategory = FURNITURE_CATEGORIES[1].category)
        => /\ 0 \notin reqCats
           /\ firstReq # <<>> => firstReq[1] = 1

\* C2: a run resumed from a checkpoint whose lastCategory C is in
\* FURNITURE_CATEGORIES issues no provider request for a category whose index
\* is strictly smaller than the index of C.
ResumeSkipsEarlierCategories ==
    (Resumed /\ FindIndex(ckpt[1].lastCategory) >= 0)
        => \A c \in reqCats : c >= FindIndex(ckpt[1].lastCategory)

ResumeSkipsEarlierCategoriesWitness ==
    /\ Resumed
    /\ FindIndex(ckpt[1].lastCategory) = 1
    /\ reqCats = {1}

\* C3 as stated: after a resumed run has finalized, the combined catalog
\* holds at least N images, N the completed count of the checkpoint.
ResumeCountAtLeastN ==
    (Finalized /\ Resumed) => Len(outputFile[1].images) >= ckpt[1].completed

\* C3 as amended: after a resumed run has finalized, progress.completed is at
\* least N, and the deduplicated count recorded in the combined catalog
\* (meta.totalImages) is at least the number of distinct image ids of the
\* checkpoint.
ResumeKeepsCheckpointImages ==
    (Finalized /\ Resumed)
        => /\ progress.completed >= ckpt[1].completed
           /\ outputFile[1].meta.totalImages >= Cardinality(IdsOf(ckpt[1].images))

ResumeKeepsCheckpointImagesWitness ==
    /\ Finalized
    /\ Resumed
    /\ ckpt[1].completed > 0
    /\ progress.completed > ckpt[1].completed
    /\ outputFile[1].meta.totalImages < progress.completed

\* C4: after finalize has returned, the combined catalog file holds every
\* deduplicated image of every source in its images field, and its
\* meta.totalImages is the length of that field.
CombinedCatalogComplete ==
    Finalized
        => /\ Range(uniqueImages) \subseteq Range(outputFile[1].images)
           /\ outputFile[1].meta.totalImages = Len(outputFile[1].images)

\* C5: the deduplication of finalize is keyed by (source, id): every
\* accumulated record has a record of its source and id in the output.
DedupKeyedBySourceAndId ==
    pc \in {"saveUnsplash", "savePexels", "unlink", "done"}
        => \A j \in 1..Len(progress.images) :
              \E u \in Range(uniqueImages) :
                  /\ u.id = progress.images[j].id
                  /\ u.source = progress.images[j].source

----------------------------------------------------------------------------
(* Properties of the deduplication *)

\* C6: deduplicating the output of the deduplication yields the same set of
\* records, and the output holds no two records with the same key.
DedupIdempotent ==
    /\ dpc \in {"once", "twice"}
          => \A a, b \in 1..Len(dedupOnce) :
                a # b => DedupKey(dedupOnce[a]) # DedupKey(dedupOnce[b])
    /\ dpc = "twice" => Range(dedupTwice) = Range(dedupOnce)

DedupIdempotentWitness ==
    /\ dpc = "twice"
    /\ Len(dedupOnce) >= 2
    /\ Len(dedupOnce) < Len(accumulated)

\* the position of the last record of imgs with the identifier id
LastIndexOf(imgs, id) ==
    CHOOSE j \in 1..Len(imgs) :
        /\ imgs[j].id = id
        /\ \A k \in (j + 1)..Len(imgs) : imgs[k].id # id

\* C23: the output of the deduplication holds exactly one record for every
\* identifier of the accumulated list and none for any other, and the
\* record of an identifier is the last one with it in the accumulated list.
DedupLastWriteWins ==
    dpc \in {"once", "twice"} =>
        /\ IdsOf(dedupOnce) = IdsOf(accumulated)
        /\ \A id \in IdsOf(accumulated) :
              /\ Cardinality({j \in 1..Len(dedupOnce) : dedupOnce[j].id = id}) = 1
              /\ \A j \in 1..Len(dedupOnce) :
                    dedupOnce[j].id = id
                        => dedupOnce[j] = accumulated[LastIndexOf(accumulated, id)]

DedupLastWriteWinsWitness ==
    /\ dpc = "once"
    /\ Len(accumulated) = 3
    /\ accumulated[1].id = accumulated[3].id
    /\ accumulated[1] # accumulated[3]
    /\ accumulated[2].id # accumulated[1].id
    /\ dedupOnce = <<accumulated[3], accumulated[2]>>

----------------------------------------------------------------------------
(* Properties of the listing generator *)

\* listing.images of a sequence of listings, one after the other
RECURSIVE Flatten(_)
Flatten(ls) ==
    IF ls = <<>> THEN <<>> ELSE ls[1].images \o Flatten(Tail(ls))

RECURSIVE OfCategory(_, _)
OfCategory(ls, c) ==
    IF ls = <<>> THEN <<>>
    ELSE IF ls[1].category = c THEN <<ls[1]>> \o OfCategory(Tail(ls), c)
    ELSE OfCategory(Tail(ls), c)

IdSeq(imgs) == [j \in 1..Len(imgs) |-> imgs[j].id]

Occurrences(ids, id) == Cardinality({j \in 1..Len(ids) : ids[j] = id})

\* C7: within each category the windows are pairwise disjoint and their
\* concatenation is the category's image group; in the end every loaded
\* image is in exactly one listing.
PartitionInvariant ==
    /\ gpc = "window"
          => /\ i <= Len(CategoryImages)
             /\ Flatten(categoryListings) = IdSeq(SubSeq(CategoryImages, 1, i))
    /\ gpc \in {"category", "save", "done"}
          => \A g \in 1..(groupIdx - 1) :
                Flatten(OfCategory(listings, imagesByCategory[g][1]))
                    = IdSeq(imagesByCategory[g][2])
    /\ gpc = "done"
          => \A j \in 1..Len(images) :
                Occurrences(Flatten(listingsFile[1].listings), images[j].id) = 1

PartitionInvariantWitness ==
    /\ gpc = "done"
    /\ Len(imagesByCategory) = 2
    /\ Len(listings) >= 3
    /\ \E l \in 1..Len(listings) : Len(listings[l].images) >= 2

ListingShape(l) ==
    /\ Len(l.images) \in 1..5
    /\ \A j \in 1..Len(l.images) : images[l.images[j]].category = l.category

ListingShapes ==
    /\ \A l \in 1..Len(categoryListings) : ListingShape(categoryListings[l])
    /\ \A l \in 1..Len(listings) : ListingShape(listings[l])
    /\ gpc = "done"
          => \A g \in 1..Len(imagesByCategory) :
                LET n == Len(imagesByCategory[g][2])
                    m == Len(OfCategory(listings, imagesByCategory[g][1]))
                IN  CeilDiv(n, 5) <= m /\ m <= n

\* C8: every listing has 1 to 5 images, all of the listing's category; a
\* group of n images yields between ceil(n/5) and n listings; the window
\* loop ends, since every turn moves i forward and i never passes n.
ListingsShapedAndLoopEnds ==
    /\ []ListingShapes
    /\ [][gpc = "window" /\ gpc' = "window"
            => i < i' /\ i' <= Len(CategoryImages)]_vars

ListingsShapedAndLoopEndsWitness ==
    /\ gpc = "done"
    /\ Len(images) = 7
    /\ Len(imagesByCategory) = 1
    /\ Len(listings) = 2

\* C9: the price is positive, a multiple of 1000, and lies between
\* min x 0.45 and max x 1.0 of the category's range, each rounded to the
\* nearest 1000.
PriceBounds ==
    ppc = "priced"
        => LET range == PriceRange(priceCategory)
           IN  /\ price > 0
               /\ price % 1000 = 0
               /\ price >= Round(range.min * 45, 100000) * 1000
               /\ price <= Round(range.max * 100, 100000) * 1000

PriceBoundsWitness ==
    /\ ppc = "priced"
    /\ priceCategory = "unknown"
    /\ condition = "fair"
    /\ basePrice = 20000
    /\ price = 9000

\* C10: a catalog without images field, or with an empty images list, ends
\* the synthesis with a non-zero exit status and without a listing catalog.
MalformedCatalogIsFatal ==
    (/\ gpc \in {"done", "failed"}
     /\ catalogFile # <<>>
     /\ \/ "images" \notin DOMAIN catalogFile[1]
        \/ catalogFile[1].images = <<>>)
        => /\ exitCode # <<0>>
           /\ listingsFile = <<>>

----------------------------------------------------------------------------
(* fetch-images.ts: the fresh acquisition scenario *)

----------------------------------------------------------------------------
(* fetch-images.ts: retries *)

\* C12: a 429 answer is followed by a retry of the same request and leaves
\* the retry count as it was.
RateLimitNotCounted ==
    [][sleepMs' >= RATE_LIMIT_WAIT => pc' = pc /\ retries' = retries]_vars

\* C13: a call of fetchUnsplash or fetchPexels issues at most MAX_RETRIES
\* requests (retries counts the failed ones, the next is in flight), the
\* last of them ends the call, and a call that ends without images leaves
\* the progress as it was and goes on with the next step of the page loop.
RetryExhaustionIsNotFatal ==
    /\ [](pc \in {"unsplash", "pexels"} => retries < MAX_RETRIES)
    /\ [][   /\ pc \in {"unsplash", "pexels"}
             /\ retries = MAX_RETRIES - 1
             /\ pc' # "main"
          => /\ pc' \in (IF pc = "unsplash" THEN {"unsplashSave", "pexelsCheck"}
                                             ELSE {"pexelsSave", "pageInc"})
             /\ pc' \in {"pexelsCheck", "pageInc"} => progress' = progress
       ]_vars

RetryExhaustionIsNotFatalWitness ==
    /\ pc \in {"pexelsCheck", "pageInc"}
    /\ sleepMs = RATE_LIMIT_WAIT + BACKOFF_UNIT * MAX_RETRIES
    /\ progress.images = <<>>

----------------------------------------------------------------------------
(* fetch-images.ts: termination *)

Phase ==
    CASE pc = "main" -> 0
      [] pc = "load" -> 1
      [] pc = "finalize" -> 3
      [] pc = "saveUnsplash" -> 4
      [] pc = "savePexels" -> 5
      [] pc = "unlink" -> 6
      [] pc \in {"done", "fatal"} -> 7
      [] OTHER -> 2

CatStage ==
    CASE pc = "cat" -> 0
      [] pc = "catEnd" -> 2
      [] OTHER -> 1

QueryStage == IF pc = "query" THEN 0 ELSE 1

PageStage ==
    CASE pc = "unsplash" -> 1
      [] pc = "unsplashSave" -> 2
      [] pc = "pexelsCheck" -> 3
      [] pc = "pexels" -> 4
      [] pc = "pexelsSave" -> 5
      [] pc = "pageInc" -> 6
      [] OTHER -> 0

\* where the run is, outermost loop first
Position ==
    <<Phase, catIdx, CatStage, queryIdx, QueryStage, page, PageStage, retries>>

PositionBounded ==
    /\ catIdx \in 1..(Len(categoryTable) + 1)
    /\ pc \in {"query", "while", "unsplash", "unsplashSave", "pexelsCheck",
               "pexels", "pexelsSave", "pageInc", "catEnd"}
          => catIdx <= Len(categoryTable) /\ queryIdx \in 1..(Len(CatConfig.queries) + 1)
    /\ page \in 1..MAX_PAGES
    /\ retries \in 0..(MAX_RETRIES - 1)

LexLess(a, b) ==
    \E k \in 1..Len(a) : a[k] < b[k] /\ \A j \in 1..(k - 1) : a[j] = b[j]

\* C14: every step of a run moves it forward through a bounded sequence of
\* positions that ends with the return of finalize, whatever checkpoint it
\* started from and whatever the providers answer, and only a job without
\* any key ends in the fatal state.
AcquisitionTerminates ==
    /\ []PositionBounded
    /\ [](pc = "fatal" => ~unsplashKey /\ ~pexelsKey)
    /\ [][pc' # "main" => LexLess(Position, Position')]_vars

AcquisitionTerminatesWitness ==
    /\ pc = "done"
    /\ Resumed
    /\ ckpt[1].completed > 0
    /\ progress.completed = ckpt[1].completed

----------------------------------------------------------------------------
(* fetch-images.ts: configuration error, checkpoint *)

\* C15: a job without any key goes from main to the fatal state and nowhere
\* else: no request is issued, the progress file is not read, and neither
\* the progress file nor a catalog file is written.
ConfigurationErrorIsFatal ==
    /\ [](~unsplashKey /\ ~pexelsKey =>
            /\ pc \in {"main", "fatal"}
            /\ reqCats = {} /\ firstReq = <<>>
            /\ ckpt = <<>>
            /\ progressFile = <<>> /\ outputFile = <<>> /\ pexelsOutput = <<>>)
    /\ [][~unsplashKey /\ ~pexelsKey /\ pc = "main" => pc' = "fatal"]_vars

ConfigurationErrorIsFatalWitness ==
    /\ pc = "fatal"
    /\ ~unsplashKey /\ ~pexelsKey
    /\ progressFile = <<>>

\* C16: after finalize has returned the progress file is absent, and the
\* progress file is removed only by finalize's clean-up, when the catalog
\* files of this run have been written.
CheckpointLifecycle ==
    /\ [](pc = "done" => progressFile = <<>> /\ outputFile # <<>>)
    /\ [][progressFile # <<>> /\ progressFile' = <<>> =>
            /\ pc = "unlink"
            /\ outputFile # <<>>
            /\ outputFile[1].meta = Output(uniqueImages).meta
            /\ Len(SelectSeq2(uniqueImages, "pexels")) > 0 =>
                  /\ pexelsOutput # <<>>
                  /\ pexelsOutput[1].images = SelectSeq2(uniqueImages, "pexels")
       ]_vars

CheckpointLifecycleWitness ==
    /\ pc = "done"
    /\ progressFile = <<>>
    /\ outputFile # <<>>
    /\ pexelsOutput # <<>>
    /\ progress.lastCategory # ""

IsPrefix(a, b) == Len(a) <= Len(b) /\ SubSeq(b, 1, Len(a)) = a

\* C17: in every step of a run, the load of the checkpoint included,
\* progress.completed does not decrease and progress.images keeps its
\* elements and only gets new ones at the end.
ProgressAppendOnly ==
    [][pc' # "main" =>
          /\ progress'.completed >= progress.completed
          /\ IsPrefix(progress.images, progress'.images)]_vars

ProgressAppendOnlyWitness ==
    /\ Resumed
    /\ Len(ckpt[1].images) > 0
    /\ Len(progress.images) > Len(ckpt[1].images)
    /\ progress.completed > ckpt[1].completed

\* the images a run started now would load
Persisted == IF progressFile = <<>> THEN <<>> ELSE progressFile[1].images

----------------------------------------------------------------------------
(* fetch-images.ts: the fallback to Pexels *)

\* C20 as stated: Pexels is requested in a page iteration only when the
\* Unsplash key is not set or Unsplash returned no result for that page.
PexelsOnlyAfterEmptyUnsplash ==
    pc = "pexels" => ~unsplashKey \/ unsplashImagesLength = 0

\* C20 as amended: Pexels is requested in a page iteration only when, after
\* the Unsplash step of that page, the Pexels key is set and neither the
\* quota of the query nor the total target is reached; Unsplash may have
\* returned results for that page.
PexelsWhileQuotaOpen ==
    pc = "pexels" =>
        /\ pexelsKey
        /\ fetchedForQuery < PerQuery
        /\ progress.completed < targetTotal

PexelsWhileQuotaOpenWitness ==
    /\ pc = "pexels"
    /\ unsplashKey
    /\ unsplashImagesLength > 0

----------------------------------------------------------------------------
(* generate-listings.ts: the tags of a listing *)

\* C18: the tags of a listing are, without repetition, the tags of every
\* image of its window, its category, its materials and its condition.
TagsAreUnionOfWindow ==
    tpc = "tagged" =>
        /\ Range(tags) = UNION {Range(tagImages[j].tags) : j \in 1..Len(tagImages)}
                            \cup {tagCategory} \cup Range(materials) \cup {tagCondition}
        /\ \A a, b \in 1..Len(tags) : a # b => tags[a] # tags[b]

----------------------------------------------------------------------------
(* fetch-images.ts: the bounds of the page loop *)

\* C21: a provider request is in flight only with a page number of at most
\* MAX_PAGES, with fewer images fetched for the query than its quota
\* ceil(target / number of queries), and with progress.completed below
\* targetTotal.
RequestsWithinPageLoopBounds ==
    pc \in {"unsplash", "pexels"} =>
        /\ page \in 1..MAX_PAGES
        /\ fetchedForQuery < PerQuery
        /\ progress.completed < targetTotal

RequestsWithinPageLoopBoundsWitness ==
    /\ pc \in {"unsplash", "pexels"}
    /\ page = MAX_PAGES
    /\ retries = MAX_RETRIES - 1
    /\ fetchedForQuery = PerQuery - 1

----------------------------------------------------------------------------
(* fetch-images.ts: the delay between requests *)

\* C22: a request is issued only after the run has slept since the answer
\* to the request before it: the request that enters fetchUnsplash or
\* fetchPexels finds a delay behind it, and a retry follows a back-off.
DelayBetweenRequests ==
    [][/\ pc' \in {"unsplash", "pexels"} /\ pc' # pc => delayed
       /\ pc \in {"unsplash", "pexels"} /\ pc' = pc /\ retries' # retries
             => sleepMs' > 0
      ]_vars

----------------------------------------------------------------------------
(* fetch-images.ts: the count and the list of the progress state *)

\* completed minus the number of images in the checkpoint the run loaded;
\* zero for a run that loaded none
CheckpointDifference ==
    IF ckpt = <<>> THEN 0 ELSE ckpt[1].completed - Len(ckpt[1].images)

\* C25: in a run without a checkpoint progress.completed equals the number
\* of progress.images, in memory and in every progress file the run writes;
\* in a resumed run completed minus the number of images keeps the value it
\* has in the loaded checkpoint, in memory and on disk.
CheckpointConsistent ==
    /\ progress.completed - Len(progress.images) = CheckpointDifference
    /\ (pc \notin {"main", "load"} /\ progressFile # <<>>) =>
          progressFile[1].completed - Len(progressFile[1].images)
              = CheckpointDifference

CheckpointConsistentWitness ==
    /\ Resumed /\ CheckpointDifference = 1
    /\ Len(progress.images) > Len(ckpt[1].images)
    /\ progressFile = <<progress>>
    /\ pc = "pageInc"

----------------------------------------------------------------------------
(* generate-listings.ts: the title of a listing *)

\* the title holds no placeholder
NoPlaceholderLeft ==
    \A j \in 1..Len(title) : title[j] \notin Placeholders

\* the vocabulary of the size placeholder for a category
SizeVocabulary(c) ==
    IF c = "entertainment" THEN Range(TV_SIZES) ELSE Range(BED_SIZES)

\* C24: the title generateTitle returns holds no unreplaced placeholder, and
\* the size placeholder of the template is filled from the vocabulary of the
\* category: a TV size for an entertainment template, a bed size for a bed
\* template.
TitleFilledFromCategoryVocabulary ==
    titlepc = "returned" =>
        /\ NoPlaceholderLeft
        /\ \A j \in 1..Len(template) :
              template[j] = "{size}" => title[j] \in SizeVocabulary(titleCategory)

====
